---- MODULE Spec2Model ----
(***************************************************************************)
(* Clocker: the punch-to-duration aggregation of src/utils/timeUtils.ts.   *)
(*                                                                         *)
(* Instants are local wall-clock milliseconds counted from the local       *)
(* midnight that starts a Sunday (day 0); the local zone has no daylight   *)
(* saving change inside the modelled range, so `new Date(iso).getTime()`   *)
(* differs from this count by a constant only.  Hour amounts are kept in   *)
(* hundredths of an hour, the unit `toFixed(2)` produces.                  *)
(***************************************************************************)
EXTENDS Integers, Sequences, FiniteSets

\* ------------------------------------------------------------------------
\* Program constants
\* ------------------------------------------------------------------------
MsPerHour == 3600000
HoursPerDay == 24
DaysPerWeek == 7
MsPerDay == HoursPerDay * MsPerHour
\* one hundredth of an hour, the step of toFixed(2), in milliseconds
MsPerHundredth == MsPerHour \div 100

\* ------------------------------------------------------------------------
\* Bounds and input domains
\* ------------------------------------------------------------------------
MaxPunches == 3

At(d, h, m, s) == d * MsPerDay + h * MsPerHour + m * 60000 + s * 1000

\* timestamps a stored punch may carry: either side of a local midnight,
\* the midnight itself, sub-minute spacing, and two days of the next week
Instants ==
  { At(5, 23, 50, 0), At(5, 23, 59, 42), At(6, 0, 0, 0), At(6, 9, 0, 0), At(6, 9, 0, 20),
    At(6, 9, 0, 40), At(8, 9, 0, 0), At(8, 17, 0, 0) }

\* values of the clock at the moment of an evaluation
Nows == { At(6, 9, 1, 0), At(8, 10, 30, 0) }

PunchTypes == {"in", "out"}

\* src/storage/punchStorage.ts: interface Punch
Punch == [timestamp : Instants, type : PunchTypes]

\* the value of `lastInPunch` while no IN is open (null in the source)
NoPunch == [timestamp |-> 0 - 1, type |-> "none"]

\* new Date(s).getTime() for a timestamp string s that does not parse: NaN
InvalidTime == 0 - 2

isNaN(t) == t = InvalidTime

\* a < b, a <= b and a > b on Dates: false when either is an Invalid Date
lt(a, b) == ~isNaN(a) /\ ~isNaN(b) /\ a < b
le(a, b) == ~isNaN(a) /\ ~isNaN(b) /\ a <= b
gt(a, b) == ~isNaN(a) /\ ~isNaN(b) /\ a > b

RECURSIVE SeqsUpTo(_, _)
SeqsUpTo(S, n) ==
  IF n = 0 THEN {<<>>}
  ELSE LET shorter == SeqsUpTo(S, n - 1)
       IN  shorter \cup {Append(s, x) : s \in {t \in shorter : Len(t) = n - 1}, x \in S}

\* ------------------------------------------------------------------------
\* Date helpers
\* ------------------------------------------------------------------------
\* local calendar day of an instant: the "YYYY-MM-DD" key of getDailyTotals
\* and the (year, month, date) triple isSameDay compares
dayKey(t) == t \div MsPerDay

\* new Date(parts[0], parts[1] - 1, parts[2]): local midnight of a day key
dateOfDayKey(k) == k * MsPerDay

\* Date.getDay(): 0 is Sunday
getDay(t) == dayKey(t) % DaysPerWeek

getStartOfDay(t) == dayKey(t) * MsPerDay

\* setHours(23, 59, 59, 999)
getEndOfDay(t) == dayKey(t) * MsPerDay + (MsPerDay - 1)

\* a week begun on Monday
getStartOfWeekMonday(t) == (dayKey(t) - ((getDay(t) + 6) % DaysPerWeek)) * MsPerDay

\* setDate(getDate() - getDay()); setHours(0, 0, 0, 0)
getStartOfWeek(t) == (dayKey(t) - getDay(t)) * MsPerDay

isSameDay(t1, t2) == dayKey(t1) = dayKey(t2)

\* Number((ms / 3600000).toFixed(2)) in hundredths: nearest hundredth, the
\* sign kept apart as toFixed does
toFixed2(ms) ==
  IF ms >= 0 THEN (ms + MsPerHundredth \div 2) \div MsPerHundredth
  ELSE 0 - (((0 - ms) + MsPerHundredth \div 2) \div MsPerHundredth)

calculateHoursBetween(startTime, endTime) == toFixed2(endTime - startTime)

\* ------------------------------------------------------------------------
\* [...punches].sort((a, b) => time(a) - time(b)): stable, ascending
\* ------------------------------------------------------------------------
insertAscending(s, p) ==
  LET k == Cardinality({i \in 1..Len(s) : s[i].timestamp <= p.timestamp})
  IN  SubSeq(s, 1, k) \o <<p>> \o SubSeq(s, k + 1, Len(s))

\* the list left in storage order
keepOrder(s) == s

RECURSIVE sortAscending(_)
sortAscending(s) ==
  IF s = <<>> THEN <<>>
  ELSE insertAscending(sortAscending(SubSeq(s, 1, Len(s) - 1)), s[Len(s)])

\* all orderings of a list
Orderings(s) ==
  LET I == 1..Len(s)
  IN  {[i \in I |-> s[f[i]]] : f \in {g \in [I -> I] : \A i, j \in I : g[i] = g[j] => i = j}}

\* What the sort can leave.  With an unparsable timestamp in the list the
\* comparator returns NaN for some pairs, it is then no consistent order and
\* the language leaves the resulting order to the implementation.
sortOutcomes(s) ==
  IF \E i \in 1..Len(s) : isNaN(s[i].timestamp)
  THEN Orderings(s)
  ELSE {sortAscending(s)}

\* ------------------------------------------------------------------------
\* calculateHoursWorkedToday (src/utils/timeUtils.ts)
\* ------------------------------------------------------------------------
\* One iteration of the pairing loop, lines 21-46.  The accumulator is
\* [last |-> lastInPunch, total |-> totalHoursToday].
\* the pairing loop with the first of two INs kept instead of the second
todayStepKeepFirstIn(acc, currentPunch, todayStart, todayEnd) ==
  IF currentPunch.type = "in"
  THEN [acc EXCEPT !.last = IF acc.last = NoPunch THEN currentPunch ELSE acc.last]
  ELSE IF currentPunch.type = "out" /\ acc.last # NoPunch
  THEN LET tIn == acc.last.timestamp
           tOut == currentPunch.timestamp
           effectiveStart == IF lt(tIn, todayStart) THEN todayStart ELSE tIn
           effectiveEnd == IF gt(tOut, todayEnd) THEN todayEnd ELSE tOut
       IN  IF le(tOut, tIn)
           THEN [acc EXCEPT !.last = NoPunch]
           ELSE [last |-> NoPunch,
                 total |-> IF lt(effectiveStart, effectiveEnd)
                           THEN acc.total + calculateHoursBetween(effectiveStart, effectiveEnd)
                           ELSE acc.total]
  ELSE acc

\* the pairing loop with the IN left in the slot after its OUT
todayStepKeepOpen(acc, currentPunch, todayStart, todayEnd) ==
  IF currentPunch.type = "in"
  THEN [acc EXCEPT !.last = currentPunch]
  ELSE IF currentPunch.type = "out" /\ acc.last # NoPunch
  THEN LET tIn == acc.last.timestamp
           tOut == currentPunch.timestamp
           effectiveStart == IF lt(tIn, todayStart) THEN todayStart ELSE tIn
           effectiveEnd == IF gt(tOut, todayEnd) THEN todayEnd ELSE tOut
       IN  IF le(tOut, tIn)
           THEN [acc EXCEPT !.last = NoPunch]
           ELSE [last |-> acc.last,
                 total |-> IF lt(effectiveStart, effectiveEnd)
                           THEN acc.total + calculateHoursBetween(effectiveStart, effectiveEnd)
                           ELSE acc.total]
  ELSE acc

todayStep(acc, currentPunch, todayStart, todayEnd) ==
  IF currentPunch.type = "in"
  THEN [acc EXCEPT !.last = currentPunch]
  ELSE IF currentPunch.type = "out" /\ acc.last # NoPunch
  THEN LET tIn == acc.last.timestamp
           tOut == currentPunch.timestamp
           effectiveStart == IF lt(tIn, todayStart) THEN todayStart ELSE tIn
           effectiveEnd == IF gt(tOut, todayEnd) THEN todayEnd ELSE tOut
       IN  IF le(tOut, tIn)
           THEN [acc EXCEPT !.last = NoPunch]
           ELSE [last |-> NoPunch,
                 total |-> IF lt(effectiveStart, effectiveEnd)
                           THEN acc.total + calculateHoursBetween(effectiveStart, effectiveEnd)
                           ELSE acc.total]
  ELSE acc

\* the loop over sortedPunches[1..n]
RECURSIVE todayScan(_, _, _, _)
todayScan(sortedPunches, n, todayStart, todayEnd) ==
  IF n = 0 THEN [last |-> NoPunch, total |-> 0]
  ELSE todayStep(todayScan(sortedPunches, n - 1, todayStart, todayEnd),
                 sortedPunches[n], todayStart, todayEnd)

\* the open session counted from its IN, not clipped to today's start
todayOpenHoursFromIn(last, todayStart, todayEnd, tNow) ==
  IF last # NoPunch /\ gt(tNow, last.timestamp)
  THEN calculateHoursBetween(last.timestamp, IF tNow > todayEnd THEN todayEnd ELSE tNow)
  ELSE 0

\* lines 48-63: the session still open after the loop, ended at tNow
todayOpenHours(last, todayStart, todayEnd, tNow) ==
  IF last # NoPunch /\ gt(tNow, last.timestamp)
  THEN LET tIn == last.timestamp
           effectiveStart == IF lt(tIn, todayStart) THEN todayStart ELSE tIn
           capAtNow == IF tNow > todayEnd THEN todayEnd ELSE tNow
       IN  IF effectiveStart < capAtNow
           THEN calculateHoursBetween(effectiveStart, capAtNow)
           ELSE 0
  ELSE 0

\* The three `new Date()` reads of the function are separate parameters:
\* nowStart (line 12), nowEnd (line 13) and nowOpen (line 51).  The terms
\* added are already hundredths, so the closing toFixed(2) of line 65
\* returns their sum.
hoursTodayOf(sortedPunches, nowStart, nowEnd, nowOpen) ==
  LET todayStart == getStartOfDay(nowStart)
      todayEnd == getEndOfDay(nowEnd)
      acc == todayScan(sortedPunches, Len(sortedPunches), todayStart, todayEnd)
  IN  acc.total + todayOpenHours(acc.last, todayStart, todayEnd, nowOpen)

\* the function with the outcome of its sort given
hoursWorkedTodaySorted(allPunches, sortedPunches, nowStart, nowEnd, nowOpen) ==
  IF Len(allPunches) = 0 THEN 0
  ELSE hoursTodayOf(sortedPunches, nowStart, nowEnd, nowOpen)

calculateHoursWorkedToday(allPunches, nowStart, nowEnd, nowOpen) ==
  hoursWorkedTodaySorted(allPunches, sortAscending(allPunches), nowStart, nowEnd, nowOpen)

\* ------------------------------------------------------------------------
\* calculateHoursWorkedToday (src/unnamed/part_000)
\* ------------------------------------------------------------------------
\* lines 16-19: the punches at or after today's start
todaysPunchesOf(punches, today) == SelectSeq(punches, LAMBDA punch : punch.timestamp >= today)

\* One iteration of the loop of lines 32-42; the accumulator is
\* [last |-> lastInPunch (an instant, -1 for null), ms |-> totalMilliseconds].
unnamedStep(acc, punch) ==
  IF punch.type = "in"
  THEN [acc EXCEPT !.last = punch.timestamp]
  ELSE IF punch.type = "out" /\ acc.last # NoPunch.timestamp
  THEN [last |-> NoPunch.timestamp, ms |-> acc.ms + (punch.timestamp - acc.last)]
  ELSE acc

RECURSIVE unnamedScan(_, _)
unnamedScan(sortedPunches, n) ==
  IF n = 0 THEN [last |-> NoPunch.timestamp, ms |-> 0]
  ELSE unnamedStep(unnamedScan(sortedPunches, n - 1), sortedPunches[n])

\* nowStart is the `new Date()` of line 12, nowOpen that of line 46
calculateHoursWorkedTodayUnnamed(punches, nowStart, nowOpen) ==
  IF Len(punches) = 0 THEN 0
  ELSE LET today == getStartOfDay(nowStart)
           todaysPunches == todaysPunchesOf(punches, today)
           sortedPunches == sortAscending(todaysPunches)
           acc == unnamedScan(sortedPunches, Len(sortedPunches))
       IN  IF Len(todaysPunches) = 0 THEN 0
           ELSE toFixed2(IF acc.last # NoPunch.timestamp
                         THEN acc.ms + (nowOpen - acc.last)
                         ELSE acc.ms)

\* ------------------------------------------------------------------------
\* calculateTotalHours (src/utils/timeUtils.ts)
\* ------------------------------------------------------------------------
\* One iteration of the loop of lines 161-170; the accumulator is
\* [last |-> lastInPunch (an instant, -1 for null), ms |-> totalMilliseconds].
totalStep(acc, punch) ==
  IF punch.type = "in"
  THEN [acc EXCEPT !.last = punch.timestamp]
  ELSE IF punch.type = "out" /\ acc.last # NoPunch.timestamp
  THEN [last |-> NoPunch.timestamp, ms |-> acc.ms + (punch.timestamp - acc.last)]
  ELSE acc

RECURSIVE totalScan(_, _)
totalScan(sortedPunches, n) ==
  IF n = 0 THEN [last |-> NoPunch.timestamp, ms |-> 0]
  ELSE totalStep(totalScan(sortedPunches, n - 1), sortedPunches[n])

calculateTotalHours(punches, tNow) ==
  IF Len(punches) = 0 THEN 0
  ELSE LET sortedPunches == sortAscending(punches)
           acc == totalScan(sortedPunches, Len(sortedPunches))
       IN  toFixed2(IF acc.last # NoPunch.timestamp
                    THEN acc.ms + (tNow - acc.last)
                    ELSE acc.ms)

\* ------------------------------------------------------------------------
\* getDailyTotals (src/utils/timeUtils.ts)
\* ------------------------------------------------------------------------
\* dailyHoursMap is a function from day keys to hundredths of an hour
emptyMap == [k \in {} |-> 0]

mapHas(m, k) == k \in DOMAIN m

\* dailyHoursMap.get(k) || 0
mapGetOr0(m, k) == IF k \in DOMAIN m THEN m[k] ELSE 0

mapSet(m, k, v) == [x \in (DOMAIN m) \cup {k} |-> IF x = k THEN v ELSE m[x]]

\* the body of `if (segmentEnd > currentSegmentStart)`, lines 221-224
addSegment(m, currentSegmentStart, segmentEnd) ==
  IF segmentEnd > currentSegmentStart
  THEN mapSet(m, dayKey(currentSegmentStart),
              mapGetOr0(m, dayKey(currentSegmentStart))
                + calculateHoursBetween(currentSegmentStart, segmentEnd))
  ELSE m

\* the whole session booked on the day of its IN
walkClosedNoSplit(m, currentSegmentStart, tIn, tOut) ==
  addSegment(m, currentSegmentStart, tOut)

\* One iteration of the while loop of lines 214-242, entered with
\* currentSegmentStart < tOut: the map after it, whether it ended in `break`,
\* and the value given to currentSegmentStart otherwise.
closedIteration(m, currentSegmentStart, tIn, tOut) ==
  LET endOfCurrentDay == getEndOfDay(currentSegmentStart)
      segmentEnd == IF tOut < endOfCurrentDay THEN tOut ELSE endOfCurrentDay
      m1 == addSegment(m, currentSegmentStart, segmentEnd)
      nextDayStart == getStartOfDay(currentSegmentStart) + MsPerDay
  IN  IF nextDayStart > tOut /\ isSameDay(currentSegmentStart, tOut)
      THEN [map |-> IF /\ tOut = getStartOfDay(tOut)
                       /\ ~isSameDay(tIn, tOut)
                       /\ ~mapHas(m1, dayKey(tOut))
                    THEN mapSet(m1, dayKey(tOut), 0)
                    ELSE m1,
            break |-> TRUE, next |-> currentSegmentStart]
      ELSE [map |-> m1, break |-> FALSE, next |-> nextDayStart]

\* the while loop of lines 214-242, for the closed session (tIn, tOut)
RECURSIVE walkClosed(_, _, _, _)
walkClosed(m, currentSegmentStart, tIn, tOut) ==
  IF ~(currentSegmentStart < tOut) THEN m
  ELSE LET r == closedIteration(m, currentSegmentStart, tIn, tOut)
       IN  IF r.break THEN r.map ELSE walkClosed(r.map, r.next, tIn, tOut)

\* an iteration that goes on from the end of the segment it has booked
openIterationFromSegmentEnd(m, currentSegmentStart, tNow) ==
  LET endOfCurrentDay == getEndOfDay(currentSegmentStart)
      segmentEnd == IF tNow < endOfCurrentDay THEN tNow ELSE endOfCurrentDay
      m1 == addSegment(m, currentSegmentStart, segmentEnd)
      nextDayStart == getStartOfDay(currentSegmentStart) + MsPerDay
  IN  IF nextDayStart > tNow /\ isSameDay(currentSegmentStart, tNow)
      THEN [map |-> m1, break |-> TRUE, next |-> currentSegmentStart]
      ELSE [map |-> m1, break |-> FALSE, next |-> segmentEnd]

\* One iteration of the while loop of lines 254-271, entered with
\* currentSegmentStart < tNow.
openIteration(m, currentSegmentStart, tNow) ==
  LET endOfCurrentDay == getEndOfDay(currentSegmentStart)
      segmentEnd == IF tNow < endOfCurrentDay THEN tNow ELSE endOfCurrentDay
      m1 == addSegment(m, currentSegmentStart, segmentEnd)
      nextDayStart == getStartOfDay(currentSegmentStart) + MsPerDay
  IN  IF nextDayStart > tNow /\ isSameDay(currentSegmentStart, tNow)
      THEN [map |-> m1, break |-> TRUE, next |-> currentSegmentStart]
      ELSE [map |-> m1, break |-> FALSE, next |-> nextDayStart]

\* the while loop of lines 254-271, for the open session (tIn, tNow)
RECURSIVE walkOpen(_, _, _)
walkOpen(m, currentSegmentStart, tNow) ==
  IF ~(currentSegmentStart < tNow) THEN m
  ELSE LET r == openIteration(m, currentSegmentStart, tNow)
       IN  IF r.break THEN r.map ELSE walkOpen(r.map, r.next, tNow)

\* One iteration of the pairing loop, lines 196-245; the accumulator is
\* [last |-> lastInPunch, map |-> dailyHoursMap].
dailyStep(acc, currentPunch) ==
  IF currentPunch.type = "in"
  THEN [acc EXCEPT !.last = currentPunch]
  ELSE IF currentPunch.type = "out" /\ acc.last # NoPunch
  THEN LET tIn == acc.last.timestamp
           tOut == currentPunch.timestamp
       IN  IF tOut <= tIn
           THEN [acc EXCEPT !.last = NoPunch]
           ELSE [last |-> NoPunch, map |-> walkClosed(acc.map, tIn, tIn, tOut)]
  ELSE acc

RECURSIVE dailyScan(_, _)
dailyScan(sortedPunches, n) ==
  IF n = 0 THEN [last |-> NoPunch, map |-> emptyMap]
  ELSE dailyStep(dailyScan(sortedPunches, n - 1), sortedPunches[n])

\* lines 248-273
dailyOpen(acc, tNow) ==
  IF acc.last # NoPunch /\ tNow > acc.last.timestamp
  THEN walkOpen(acc.map, acc.last.timestamp, tNow)
  ELSE acc.map

\* no day added
fillDaysNone(m, currentDate, endDateLimit) == m

\* the while loop of lines 284-290
RECURSIVE fillDays(_, _, _)
fillDays(m, currentDate, endDateLimit) ==
  IF ~(currentDate <= endDateLimit) THEN m
  ELSE fillDays(IF mapHas(m, dayKey(currentDate)) THEN m
                ELSE mapSet(m, dayKey(currentDate), 0),
                currentDate + MsPerDay, endDateLimit)

\* lines 276-291
dailyFill(m, sortedPunches, last, nowFill) ==
  IF Len(sortedPunches) > 0 /\ DOMAIN m # {}
  THEN LET firstPunchDate == getStartOfDay(sortedPunches[1].timestamp)
           lastPunchDate == getStartOfDay(sortedPunches[Len(sortedPunches)].timestamp)
           endDateLimit == IF last # NoPunch THEN getStartOfDay(nowFill) ELSE lastPunchDate
       IN  fillDays(m, firstPunchDate, endDateLimit)
  ELSE m

\* lines 294-302: the entries as { date, hours }, sorted by date descending
RECURSIVE entriesDescending(_)
entriesDescending(m) ==
  IF DOMAIN m = {} THEN <<>>
  ELSE LET k == CHOOSE x \in DOMAIN m : \A y \in DOMAIN m : y <= x
       IN  <<[date |-> dateOfDayKey(k), hours |-> m[k]]>>
             \o entriesDescending([x \in (DOMAIN m) \ {k} |-> m[x]])

\* nowOpen is the `new Date()` of line 250, nowFill that of line 282
getDailyTotals(allPunches, nowOpen, nowFill) ==
  IF Len(allPunches) = 0 THEN <<>>
  ELSE LET sortedPunches == sortAscending(allPunches)
           acc == dailyScan(sortedPunches, Len(sortedPunches))
           m == dailyOpen(acc, nowOpen)
       IN  entriesDescending(dailyFill(m, sortedPunches, acc.last, nowFill))

\* ------------------------------------------------------------------------
\* getWeeklyTotals (src/utils/timeUtils.ts)
\* ------------------------------------------------------------------------
\* punchesByWeek after the forEach of lines 314-323: a function from week
\* keys to the punches of that week, in the order they were met
RECURSIVE groupByWeek(_, _)
groupByWeek(punches, n) ==
  IF n = 0 THEN [k \in {} |-> <<>>]
  ELSE LET g == groupByWeek(punches, n - 1)
           weekKey == getStartOfWeek(punches[n].timestamp)
       IN  [k \in (DOMAIN g) \cup {weekKey} |->
              IF k = weekKey
              THEN (IF k \in DOMAIN g THEN g[k] ELSE <<>>) \o <<punches[n]>>
              ELSE g[k]]

\* lines 326-329: one bucket per key, sorted by weekStart descending
RECURSIVE weeksDescending(_, _)
weeksDescending(g, tNow) ==
  IF DOMAIN g = {} THEN <<>>
  ELSE LET k == CHOOSE x \in DOMAIN g : \A y \in DOMAIN g : y <= x
       IN  <<[weekStart |-> k, hours |-> calculateTotalHours(g[k], tNow)]>>
             \o weeksDescending([x \in (DOMAIN g) \ {k} |-> g[x]], tNow)

getWeeklyTotals(punches, tNow) ==
  IF Len(punches) = 0 THEN <<>>
  ELSE weeksDescending(groupByWeek(punches, Len(punches)), tNow)

\* line 317: getStartOfWeek of an Invalid Date is an Invalid Date, and
\* toISOString() of it throws a RangeError
getWeeklyTotalsThrows(punches) ==
  \E i \in 1..Len(punches) : isNaN(punches[i].timestamp)

\* ------------------------------------------------------------------------
\* formatHours (src/utils/timeUtils.ts)
\* ------------------------------------------------------------------------
\* Math.round(num / den) for den > 0: the nearest integer, a half rounded up
mathRound(num, den) == (2 * num + den) \div (2 * den)

\* every amount below one hour shown in minutes, the hour itself included
formatHoursMinutesUpToOne(hours) ==
  IF hours = 0 THEN [amount |-> 0, unit |-> "hours"]
  ELSE IF hours <= 100
  THEN LET minutes == mathRound(hours * 60, 100)
       IN  [amount |-> minutes, unit |-> IF minutes = 1 THEN "minute" ELSE "minutes"]
  ELSE [amount |-> hours, unit |-> IF hours = 100 THEN "hour" ELSE "hours"]

\* The text `${amount} ${unit}` as the pair of its parts; `hours` is in
\* hundredths of an hour, and so is the amount of an "hour"/"hours" text,
\* which the source prints unchanged.
formatHours(hours) ==
  IF hours = 0 THEN [amount |-> 0, unit |-> "hours"]
  ELSE IF hours < 100
  THEN LET minutes == mathRound(hours * 60, 100)
       IN  [amount |-> minutes, unit |-> IF minutes = 1 THEN "minute" ELSE "minutes"]
  ELSE [amount |-> hours, unit |-> IF hours = 100 THEN "hour" ELSE "hours"]

\* ------------------------------------------------------------------------
\* The store (src/storage/punchStorage.ts)
\* ------------------------------------------------------------------------
\* The value under the key 'punches' is the sequence of punches its JSON
\* text lists; a missing key is the empty sequence, which is what the only
\* reader, loadPunches, makes of it (line 36).  The value under 'clockState'
\* is "in", "out" or, for a missing key, "none".  A timestamp string is the
\* toISOString() of an instant, so two strings are equal exactly when the
\* instants are, and the model keeps the instant.  Every AsyncStorage call
\* may fail; whether it succeeds is a parameter of the operation.

\* punches.sort((a, b) => time(b) - time(a)): stable, newest first
insertDescending(s, p) ==
  LET k == Cardinality({i \in 1..Len(s) : s[i].timestamp >= p.timestamp})
  IN  SubSeq(s, 1, k) \o <<p>> \o SubSeq(s, k + 1, Len(s))

RECURSIVE sortDescending(_)
sortDescending(s) ==
  IF s = <<>> THEN <<>>
  ELSE insertDescending(sortDescending(SubSeq(s, 1, Len(s) - 1)), s[Len(s)])

\* lines 33-46: a failed read is caught and answered with []
loadPunches(stored, readOk) ==
  IF readOk THEN sortDescending(stored) ELSE <<>>

\* lines 18-27
savePunch(stored, punch, readOk, writeOk) ==
  LET loaded == Append(loadPunches(stored, readOk), punch)
  IN  IF writeOk THEN [stored |-> loaded, threw |-> FALSE]
      ELSE [stored |-> stored, threw |-> TRUE]

\* lines 66-73
saveClockState(flag, isClockIn, writeOk) ==
  IF writeOk THEN [flag |-> IF isClockIn THEN "in" ELSE "out", threw |-> FALSE]
  ELSE [flag |-> flag, threw |-> TRUE]

\* lines 79-87: a failed read is caught and answered with false
loadClockState(flag, readOk) == readOk /\ flag = "in"

\* every punch not newer than the given one removed
deletePunchUpTo(stored, timestamp, readOk, writeOk) ==
  LET loaded == loadPunches(stored, readOk)
      updatedPunches == SelectSeq(loaded, LAMBDA p : p.timestamp > timestamp)
  IN  IF writeOk THEN [stored |-> updatedPunches, threw |-> FALSE]
      ELSE [stored |-> stored, threw |-> TRUE]

\* lines 94-103
deletePunch(stored, timestamp, readOk, writeOk) ==
  LET loaded == loadPunches(stored, readOk)
      updatedPunches == SelectSeq(loaded, LAMBDA p : p.timestamp # timestamp)
  IN  IF writeOk THEN [stored |-> updatedPunches, threw |-> FALSE]
      ELSE [stored |-> stored, threw |-> TRUE]

\* lines 111-122
updatePunch(stored, oldTimestamp, updatedPunch, readOk, writeOk) ==
  LET loaded == loadPunches(stored, readOk)
      updatedPunches ==
        [i \in 1..Len(loaded) |->
           IF loaded[i].timestamp = oldTimestamp THEN updatedPunch ELSE loaded[i]]
  IN  IF writeOk THEN [stored |-> updatedPunches, threw |-> FALSE]
      ELSE [stored |-> stored, threw |-> TRUE]

\* a reset that removes the punches only
resetAllDataPunchesOnly(stored, flag, clockOk, punchesOk) ==
  [stored |-> IF punchesOk THEN <<>> ELSE stored,
   flag |-> flag,
   threw |-> ~punchesOk]

\* lines 143-153: the two removeItem calls of the Promise.all run each on
\* its own; the call throws when either fails
resetAllData(stored, flag, clockOk, punchesOk) ==
  [stored |-> IF punchesOk THEN <<>> ELSE stored,
   flag |-> IF clockOk THEN "none" ELSE flag,
   threw |-> ~(clockOk /\ punchesOk)]

\* ------------------------------------------------------------------------
\* generateEmailContent (src/app/screens/ReportScreen.tsx)
\* ------------------------------------------------------------------------
\* The report is the sequence of its lines.  A line is a record: `kind`
\* says which statement of the source wrote it, `key` is the week or day a
\* label names, `amount` and `unit` the parts of the text after the label.
Line(kind, key, amount, unit) ==
  [kind |-> kind, key |-> key, amount |-> amount, unit |-> unit]

BlankLine == Line("blank", 0, 0, "")

\* a title line followed by its line of "=" signs
SectionHead(title) == <<Line("section", 0, 0, title), Line("rule", 0, 0, "=")>>

\* toLocaleDateString with weekday, month, day and year: the text names the
\* local calendar day of the instant and nothing finer
formatDate(t) == dayKey(t)

\* toLocaleTimeString with hour and minute: the text names the minute of the
\* local day and nothing finer
formatPunchTime(t) == (t % MsPerDay) \div 60000

toUpperCase(type) == IF type = "in" THEN "IN" ELSE "OUT"

\* lines 306-308: `${week.label}: ${formatHours(week.hours)}`, the label
\* being formatWeekRange(week.weekStart)
weekLines(weekly) ==
  [i \in 1..Len(weekly) |->
     LET t == formatHours(weekly[i].hours)
     IN  Line("week", weekly[i].weekStart, t.amount, t.unit)]

\* lines 314-316: `${day.label}: ${formatHours(day.hours)}`, the label being
\* formatDate(day.date, true)
dayLines(daily) ==
  [i \in 1..Len(daily) |->
     LET t == formatHours(daily[i].hours)
     IN  Line("day", formatDate(daily[i].date), t.amount, t.unit)]

\* the value of `currentDay` before the first punch ("" in the source)
NoDay == 0 - 1

\* One iteration of the forEach of lines 328-342; the accumulator is
\* [content |-> the lines added so far, currentDay |-> currentDay].
historyStep(acc, punch) ==
  LET dayStr == formatDate(punch.timestamp)
      punchLine == Line("punch", 0, formatPunchTime(punch.timestamp), toUpperCase(punch.type))
  IN  IF acc.currentDay # dayStr
      THEN [content |-> acc.content
                          \o (IF acc.currentDay # NoDay THEN <<BlankLine>> ELSE <<>>)
                          \o <<Line("header", dayStr, 0, ""), Line("dashes", 0, 0, "-")>>
                          \o <<punchLine>>,
            currentDay |-> dayStr]
      ELSE [acc EXCEPT !.content = Append(acc.content, punchLine)]

RECURSIVE historyScan(_, _)
historyScan(sortedPunches, n) ==
  IF n = 0 THEN [content |-> <<>>, currentDay |-> NoDay]
  ELSE historyStep(historyScan(sortedPunches, n - 1), sortedPunches[n])

\* the report with the punch history in the order of the stored list
generateEmailContentUnsorted(weekly, daily, allPunches) ==
  <<Line("title", 0, 0, "Clock In/Out Report"), BlankLine>>
    \o SectionHead("Weekly Totals") \o weekLines(weekly) \o <<BlankLine>>
    \o SectionHead("Daily Totals") \o dayLines(daily) \o <<BlankLine>>
    \o SectionHead("Detailed Punch History")
    \o historyScan(allPunches, Len(allPunches)).content

\* weekly and daily are summaries[0].data and summaries[1].data as
\* updateSummaries left them
generateEmailContent(weekly, daily, allPunches) ==
  LET sortedPunches == sortAscending(allPunches)
  IN  <<Line("title", 0, 0, "Clock In/Out Report"), BlankLine>>
        \o SectionHead("Weekly Totals") \o weekLines(weekly) \o <<BlankLine>>
        \o SectionHead("Daily Totals") \o dayLines(daily) \o <<BlankLine>>
        \o SectionHead("Detailed Punch History")
        \o historyScan(sortedPunches, Len(sortedPunches)).content

\* ------------------------------------------------------------------------
\* State: the punch list handed to the screens, the clock, and what the
\* screens last computed
\* ------------------------------------------------------------------------
VARIABLES punches, now, screen, hoursWorked, dailyTotals, weeklyTotals

\* what the screens last rendered: the "Hours Today" text of HomeScreen and
\* the report text of ReportScreen
VARIABLES hoursLabel, emailContent

textVars == <<hoursLabel, emailContent>>

\* a day-segment walk of getDailyTotals in progress: the session it walks,
\* currentSegmentStart, dailyHoursMap, the iterations done, and whether the
\* loop is still running
VARIABLES walk

walkVars == <<walk>>

\* the two values AsyncStorage holds, HomeScreen's `isClockedIn` and
\* `punches`, and the record of a call of a store function: the function,
\* its arguments (a timestamp, a punch), which of its storage accesses
\* succeeded, whether it threw, and the two stored values before it
VARIABLES storePunches, storeClock, isClockedIn, homePunches, lastCall

\* whether some storage access made by a screen's handler has failed so far
VARIABLES accessFailed

storeVars == <<storePunches, storeClock, isClockedIn, homePunches, lastCall, accessFailed>>

\* the store calls and clock presses that have been started and have not yet
\* returned, by slot, and the stored list when the first of them started
VARIABLES inflight, storeBefore

raceVars == <<inflight, storeBefore>>

\* the values `new Date()` returned to the last evaluation of
\* calculateHoursWorkedToday made for the "Hours Today" line: the reads of
\* lines 12, 13 and 51
VARIABLES clockReads

readVars == <<clockReads>>

\* no evaluation made yet
NoReads == [start |-> 0 - 1, end |-> 0 - 1, open |-> 0 - 1]

\* an empty list is answered at line 9, before the clock is read
readsOf(allPunches, nowStart, nowEnd, nowOpen) ==
  IF Len(allPunches) = 0 THEN NoReads
  ELSE [start |-> nowStart, end |-> nowEnd, open |-> nowOpen]

vars ==
  <<punches, now, screen, hoursWorked, dailyTotals, weeklyTotals, textVars, walkVars,
    storeVars, raceVars, readVars>>

\* no call made yet
NoCall ==
  [op |-> "none", key |-> 0 - 1, punch |-> NoPunch, readOk |-> TRUE, writeOk |-> TRUE,
   threw |-> FALSE, before |-> <<>>, flagBefore |-> "none"]

\* nothing in flight and no evaluation made
NoneInFlight ==
  /\ inflight = <<>>
  /\ storeBefore = <<>>
  /\ clockReads = NoReads

\* a fresh installation: nothing stored, HomeScreen in its initial state
FreshStore ==
  /\ storePunches = <<>>
  /\ storeClock = "none"
  /\ isClockedIn = FALSE
  /\ homePunches = <<>>
  /\ lastCall = NoCall
  /\ accessFailed = FALSE

\* no walk in progress
NoWalk ==
  [kind |-> "none", tIn |-> 0, tEnd |-> 0, currentSegmentStart |-> 0,
   map |-> emptyMap, iterations |-> 0, pc |-> "done"]

\* the text not rendered yet
NoLabel == [amount |-> 0, unit |-> "none"]

TypeOK ==
  /\ Len(punches) <= MaxPunches
  /\ \A i \in 1..Len(punches) : punches[i] \in Punch
  /\ now \in Nows
  /\ screen \in {"idle", "home", "report", "email", "error"}
  /\ hoursWorked \in Int

Init ==
  /\ punches \in SeqsUpTo(Punch, MaxPunches)
  /\ now \in Nows
  /\ screen = "idle"
  /\ hoursWorked = 0
  /\ dailyTotals = <<>>
  /\ weeklyTotals = <<>>
  /\ hoursLabel = NoLabel
  /\ emailContent = <<>>
  /\ walk = NoWalk
  /\ FreshStore
  /\ NoneInFlight

\* HomeScreen: setHoursWorked(calculateHoursWorkedToday(punches))
RefreshHours ==
  /\ screen = "idle"
  /\ \E sortedPunches \in sortOutcomes(punches) :
       hoursWorked' = hoursWorkedTodaySorted(punches, sortedPunches, now, now, now)
  /\ clockReads' = readsOf(punches, now, now, now)
  /\ screen' = "home"
  /\ UNCHANGED <<punches, now, dailyTotals, weeklyTotals, textVars, walkVars, storeVars,
                 raceVars>>

\* ReportScreen.updateSummaries(loadedPunches)
\* When getWeeklyTotals throws, setSummaries is not reached and loadPunchData
\* shows its error alert.
updateSummaries ==
  /\ screen = "idle"
  /\ IF getWeeklyTotalsThrows(punches)
     THEN /\ screen' = "error"
          /\ UNCHANGED <<dailyTotals, weeklyTotals>>
     ELSE /\ dailyTotals' = getDailyTotals(punches, now, now)
          /\ weeklyTotals' = getWeeklyTotals(punches, now)
          /\ screen' = "report"
  /\ UNCHANGED <<punches, now, hoursWorked, textVars, walkVars, storeVars, raceVars, readVars>>

\* ReportScreen.sendEmail: the body handed to the mail composer, or copied
\* to the clipboard; `summaries` holds its two sections once updateSummaries
\* has run
sendEmail ==
  /\ screen = "report"
  /\ emailContent' = generateEmailContent(weeklyTotals, dailyTotals, punches)
  /\ screen' = "email"
  /\ UNCHANGED <<punches, now, hoursWorked, dailyTotals, weeklyTotals, hoursLabel, walkVars,
                 storeVars, raceVars, readVars>>

Next == RefreshHours \/ updateSummaries \/ sendEmail

Spec == Init /\ [][Next]_vars

\* ------------------------------------------------------------------------
\* The same screens over punch lists that may hold unparsable timestamps
\* ------------------------------------------------------------------------
\* a punch whose timestamp string does not parse
UnparsablePunch == [timestamp : {InvalidTime}, type : PunchTypes]

\* the parsable punches next to it: two instants of one day
ParsableBeside == [timestamp : {At(6, 9, 0, 0), At(6, 9, 0, 40)}, type : PunchTypes]

InitUnparsable ==
  /\ punches \in SeqsUpTo(ParsableBeside \cup UnparsablePunch, MaxPunches)
  /\ now \in Nows
  /\ screen = "idle"
  /\ hoursWorked = 0
  /\ dailyTotals = <<>>
  /\ weeklyTotals = <<>>
  /\ hoursLabel = NoLabel
  /\ emailContent = <<>>
  /\ walk = NoWalk
  /\ FreshStore
  /\ NoneInFlight

SpecUnparsable == InitUnparsable /\ [][Next]_vars

\* ------------------------------------------------------------------------
\* formatHours applied to an amount of hours: HomeScreen's "Hours Today"
\* ------------------------------------------------------------------------
\* largest amount formatted, in hundredths of an hour
MaxHours == 300

InitFormat ==
  /\ hoursWorked \in 0..MaxHours
  /\ punches = <<>>
  /\ now \in Nows
  /\ screen = "home"
  /\ dailyTotals = <<>>
  /\ weeklyTotals = <<>>
  /\ hoursLabel = NoLabel
  /\ emailContent = <<>>
  /\ walk = NoWalk
  /\ FreshStore
  /\ NoneInFlight

\* HomeScreen: Hours Today: {formatHours(hoursWorked)}
renderHours ==
  /\ screen = "home"
  /\ hoursLabel = NoLabel
  /\ hoursLabel' = formatHours(hoursWorked)
  /\ UNCHANGED <<punches, now, screen, hoursWorked, dailyTotals, weeklyTotals, emailContent,
                 walkVars, storeVars, raceVars, readVars>>

NextFormat == renderHours

SpecFormat == InitFormat /\ [][NextFormat]_vars

\* ------------------------------------------------------------------------
\* The day-segment walks of getDailyTotals, one loop iteration a step
\* ------------------------------------------------------------------------
\* most iterations of one walk the model follows
MaxIterations == 6

\* ends of the walked sessions: the timestamps of the punches, the last
\* millisecond of a day, a further midnight, and the clock values
WalkInstants ==
  Instants \cup Nows \cup {getEndOfDay(At(5, 0, 0, 0)), At(7, 0, 0, 0)}

\* The walk is entered with tOut > tIn (line 206) or tNow > tIn (line 252),
\* currentSegmentStart = tIn (lines 211, 253).
InitWalk ==
  /\ \E kind \in {"closed", "open"}, tIn \in WalkInstants, tEnd \in WalkInstants :
       /\ tEnd > tIn
       /\ walk = [kind |-> kind, tIn |-> tIn, tEnd |-> tEnd, currentSegmentStart |-> tIn,
                  map |-> emptyMap, iterations |-> 0, pc |-> "loop"]
  /\ punches = <<>>
  /\ now \in Nows
  /\ screen = "report"
  /\ hoursWorked = 0
  /\ dailyTotals = <<>>
  /\ weeklyTotals = <<>>
  /\ hoursLabel = NoLabel
  /\ emailContent = <<>>
  /\ FreshStore
  /\ NoneInFlight

\* the loop test fails: the walk is over
walkExit ==
  /\ walk.pc = "loop"
  /\ ~(walk.currentSegmentStart < walk.tEnd)
  /\ walk' = [walk EXCEPT !.pc = "done"]
  /\ UNCHANGED <<punches, now, screen, hoursWorked, dailyTotals, weeklyTotals, textVars,
                 storeVars, raceVars, readVars>>

\* one pass through the loop body
walkIteration ==
  /\ walk.pc = "loop"
  /\ walk.currentSegmentStart < walk.tEnd
  /\ walk.iterations < MaxIterations
  /\ LET r == IF walk.kind = "closed"
              THEN closedIteration(walk.map, walk.currentSegmentStart, walk.tIn, walk.tEnd)
              ELSE openIteration(walk.map, walk.currentSegmentStart, walk.tEnd)
     IN  walk' = [walk EXCEPT !.map = r.map,
                              !.currentSegmentStart = r.next,
                              !.iterations = @ + 1,
                              !.pc = IF r.break THEN "done" ELSE "loop"]
  /\ UNCHANGED <<punches, now, screen, hoursWorked, dailyTotals, weeklyTotals, textVars,
                 storeVars, raceVars, readVars>>

NextWalk == walkExit \/ walkIteration

\* the loop is synchronous code: an iteration that can run does run
SpecWalk == InitWalk /\ [][NextWalk]_vars /\ WF_vars(NextWalk)

\* ------------------------------------------------------------------------
\* The screens' handlers over the store
\* ------------------------------------------------------------------------
\* A handler runs from its call to its return before the next one starts.
\* In this part `punches`, dailyTotals and weeklyTotals are the state of
\* ReportScreen, hoursWorked that of HomeScreen, and `now` is the clock.

\* instants at which the clock button is pressed, none on a whole minute
PressInstants == {At(6, 9, 0, 20), At(6, 9, 0, 40)}

\* the clock after the last press
ClockEnd == At(8, 17, 0, 0)

StoreClock == PressInstants \cup {ClockEnd}

\* new Date(year, month - 1, day, hours, minutes): the local minute the edit
\* form names, seconds and milliseconds zero
editedTimestamp(day, hours, minutes) == At(day, hours, minutes, 0)

\* (day, hours, minutes) an edit form is submitted with; all pass the range
\* checks of lines 124-142
EditFields == {<<6, 9, 0>>, <<6, 9, 1>>}

InitStore ==
  /\ FreshStore
  /\ NoneInFlight
  /\ now \in PressInstants
  /\ punches = <<>>
  /\ screen = "app"
  /\ hoursWorked = 0
  /\ dailyTotals = <<>>
  /\ weeklyTotals = <<>>
  /\ hoursLabel = NoLabel
  /\ emailContent = <<>>
  /\ walk = NoWalk
  /\ NoneInFlight

\* ReportScreen.loadPunchData with the list loadPunches returned
setReportState(loadedPunches, tNow) ==
  /\ punches' = loadedPunches
  /\ dailyTotals' = getDailyTotals(loadedPunches, tNow, tNow)
  /\ weeklyTotals' = getWeeklyTotals(loadedPunches, tNow)

\* HomeScreen.loadInitialState, run when the screen is mounted
loadInitialState ==
  /\ \E flagOk, readOk \in BOOLEAN :
       LET savedPunches == loadPunches(storePunches, readOk)
       IN  /\ isClockedIn' = loadClockState(storeClock, flagOk)
           /\ homePunches' = savedPunches
           /\ hoursWorked' = calculateHoursWorkedToday(savedPunches, now, now, now)
           /\ accessFailed' = (accessFailed \/ ~(flagOk /\ readOk))
  /\ UNCHANGED <<punches, now, screen, dailyTotals, weeklyTotals, textVars, walkVars,
                 storePunches, storeClock, lastCall, raceVars, readVars>>

\* HomeScreen.handleClockPress.  The press reads the clock at `now`; the two
\* writes are awaited and the clock has moved on, to a later value of
\* `clock`, when they are done.
clockPress(clock) ==
  /\ \E flagOk, readOk, writeOk \in BOOLEAN, later \in {t \in clock : t > now} :
       LET newState == ~isClockedIn
           punch == [timestamp |-> now, type |-> IF newState THEN "in" ELSE "out"]
           c == saveClockState(storeClock, newState, flagOk)
           r == savePunch(storePunches, punch, readOk, writeOk)
           updatedPunches == Append(homePunches, punch)
       IN  /\ storeClock' = c.flag
           /\ storePunches' = r.stored
           /\ now' = later
           /\ accessFailed' = (accessFailed \/ ~(flagOk /\ readOk /\ writeOk))
           /\ IF ~c.threw /\ ~r.threw
              THEN /\ homePunches' = updatedPunches
                   /\ isClockedIn' = newState
                   /\ hoursWorked' = calculateHoursWorkedToday(updatedPunches, later, later, later)
              ELSE UNCHANGED <<homePunches, isClockedIn, hoursWorked>>
  /\ UNCHANGED <<punches, screen, dailyTotals, weeklyTotals, textVars, walkVars, lastCall,
                 raceVars, readVars>>

\* the press among the other handlers: the clock runs over StoreClock
handleClockPress ==
  /\ now \in PressInstants
  /\ clockPress(StoreClock)

\* HomeScreen.handleReset, confirmed
handleResetHome ==
  /\ \E clockOk, punchesOk \in BOOLEAN :
       LET r == resetAllData(storePunches, storeClock, clockOk, punchesOk)
       IN  /\ storePunches' = r.stored
           /\ storeClock' = r.flag
           /\ accessFailed' = (accessFailed \/ ~(clockOk /\ punchesOk))
           /\ IF ~r.threw
              THEN /\ isClockedIn' = FALSE
                   /\ homePunches' = <<>>
                   /\ hoursWorked' = 0
              ELSE UNCHANGED <<isClockedIn, homePunches, hoursWorked>>
  /\ UNCHANGED <<punches, now, screen, dailyTotals, weeklyTotals, textVars, walkVars, lastCall,
                 raceVars, readVars>>

\* ReportScreen.loadPunchData, run when the screen gains the focus
loadPunchData ==
  /\ \E readOk \in BOOLEAN :
       /\ setReportState(loadPunches(storePunches, readOk), now)
       /\ accessFailed' = (accessFailed \/ ~readOk)
  /\ UNCHANGED <<now, screen, hoursWorked, textVars, walkVars, storePunches, storeClock,
                 isClockedIn, homePunches, lastCall, raceVars, readVars>>

\* ReportScreen.handleUpdatePunch for a punch of the list on the screen
handleUpdatePunch ==
  /\ \E i \in 1..Len(punches), f \in EditFields, editedType \in PunchTypes,
        readOk, writeOk, reloadOk \in BOOLEAN :
       LET editingPunch == punches[i]
           updatedPunchData ==
             [timestamp |-> editedTimestamp(f[1], f[2], f[3]), type |-> editedType]
           r == updatePunch(storePunches, editingPunch.timestamp, updatedPunchData,
                            readOk, writeOk)
       IN  /\ storePunches' = r.stored
           /\ accessFailed' = (accessFailed \/ ~(readOk /\ writeOk /\ (r.threw \/ reloadOk)))
           /\ IF ~r.threw
              THEN setReportState(loadPunches(r.stored, reloadOk), now)
              ELSE UNCHANGED <<punches, dailyTotals, weeklyTotals>>
  /\ UNCHANGED <<now, screen, hoursWorked, textVars, walkVars, storeClock, isClockedIn,
                 homePunches, lastCall, raceVars, readVars>>

\* ReportScreen.handleDeletePunch for a punch of the list on the screen
handleDeletePunch ==
  /\ \E i \in 1..Len(punches), readOk, writeOk, reloadOk \in BOOLEAN :
       LET r == deletePunch(storePunches, punches[i].timestamp, readOk, writeOk)
       IN  /\ storePunches' = r.stored
           /\ accessFailed' = (accessFailed \/ ~(readOk /\ writeOk /\ (r.threw \/ reloadOk)))
           /\ IF ~r.threw
              THEN setReportState(loadPunches(r.stored, reloadOk), now)
              ELSE UNCHANGED <<punches, dailyTotals, weeklyTotals>>
  /\ UNCHANGED <<now, screen, hoursWorked, textVars, walkVars, storeClock, isClockedIn,
                 homePunches, lastCall, raceVars, readVars>>

\* ReportScreen.handleReset, confirmed
handleResetReport ==
  /\ \E clockOk, punchesOk, reloadOk \in BOOLEAN :
       LET r == resetAllData(storePunches, storeClock, clockOk, punchesOk)
       IN  /\ storePunches' = r.stored
           /\ storeClock' = r.flag
           /\ accessFailed' = (accessFailed \/ ~(clockOk /\ punchesOk /\ (r.threw \/ reloadOk)))
           /\ IF ~r.threw
              THEN setReportState(loadPunches(r.stored, reloadOk), now)
              ELSE UNCHANGED <<punches, dailyTotals, weeklyTotals>>
  /\ UNCHANGED <<now, screen, hoursWorked, textVars, walkVars, isClockedIn, homePunches,
                 lastCall, raceVars, readVars>>

NextStore ==
  \/ loadInitialState
  \/ handleClockPress
  \/ handleResetHome
  \/ loadPunchData
  \/ handleUpdatePunch
  \/ handleDeletePunch
  \/ handleResetReport

SpecStore == InitStore /\ [][NextStore]_vars

\* ------------------------------------------------------------------------
\* One call of a store function on a store in any state its writers leave
\* ------------------------------------------------------------------------
\* most punches in the store before the call
MaxStored == 2

\* timestamps of the stored punches and of the arguments of the call
CallInstants == {At(6, 9, 0, 0), At(6, 9, 0, 20), At(6, 9, 0, 40)}

StorePunch == [timestamp : CallInstants, type : PunchTypes]

\* what loadPunches can return: the lists sorted newest first
LoadedLists(n) == {sortDescending(s) : s \in SeqsUpTo(StorePunch, n)}

\* What a setItem of savePunch, deletePunch or updatePunch can have written:
\* a loaded list with a punch appended, filtered, or with the punches of one
\* timestamp replaced.
WrittenLists ==
  LoadedLists(MaxStored)
    \cup {Append(t, p) : t \in LoadedLists(MaxStored - 1), p \in StorePunch}
    \cup {[i \in 1..Len(t) |-> IF t[i].timestamp = old THEN p ELSE t[i]] :
            t \in LoadedLists(MaxStored), old \in CallInstants, p \in StorePunch}

\* the record of a call made in the current state of the store
Call(op, key, punch, readOk, writeOk, threw) ==
  [op |-> op, key |-> key, punch |-> punch, readOk |-> readOk, writeOk |-> writeOk,
   threw |-> threw, before |-> storePunches, flagBefore |-> storeClock]

InitCall ==
  /\ storePunches \in WrittenLists
  /\ storeClock \in {"none", "in", "out"}
  /\ lastCall = NoCall
  /\ accessFailed = FALSE
  /\ isClockedIn = FALSE
  /\ homePunches = <<>>
  /\ now \in PressInstants
  /\ punches = <<>>
  /\ screen = "app"
  /\ hoursWorked = 0
  /\ dailyTotals = <<>>
  /\ weeklyTotals = <<>>
  /\ hoursLabel = NoLabel
  /\ emailContent = <<>>
  /\ walk = NoWalk
  /\ NoneInFlight

callSavePunch ==
  /\ lastCall = NoCall
  /\ \E punch \in StorePunch, readOk, writeOk \in BOOLEAN :
       LET r == savePunch(storePunches, punch, readOk, writeOk)
       IN  /\ storePunches' = r.stored
           /\ lastCall' = Call("savePunch", 0 - 1, punch, readOk, writeOk, r.threw)
  /\ UNCHANGED <<punches, now, screen, hoursWorked, dailyTotals, weeklyTotals, textVars,
                 walkVars, storeClock, isClockedIn, homePunches, accessFailed, raceVars,
                 readVars>>

callDeletePunch ==
  /\ lastCall = NoCall
  /\ \E timestamp \in CallInstants, readOk, writeOk \in BOOLEAN :
       LET r == deletePunch(storePunches, timestamp, readOk, writeOk)
       IN  /\ storePunches' = r.stored
           /\ lastCall' = Call("deletePunch", timestamp, NoPunch, readOk, writeOk, r.threw)
  /\ UNCHANGED <<punches, now, screen, hoursWorked, dailyTotals, weeklyTotals, textVars,
                 walkVars, storeClock, isClockedIn, homePunches, accessFailed, raceVars,
                 readVars>>

callUpdatePunch ==
  /\ lastCall = NoCall
  /\ \E oldTimestamp \in CallInstants, updatedPunch \in StorePunch,
        readOk, writeOk \in BOOLEAN :
       LET r == updatePunch(storePunches, oldTimestamp, updatedPunch, readOk, writeOk)
       IN  /\ storePunches' = r.stored
           /\ lastCall' = Call("updatePunch", oldTimestamp, updatedPunch, readOk, writeOk,
                               r.threw)
  /\ UNCHANGED <<punches, now, screen, hoursWorked, dailyTotals, weeklyTotals, textVars,
                 walkVars, storeClock, isClockedIn, homePunches, accessFailed, raceVars,
                 readVars>>

\* readOk stands for the removeItem of 'clockState', writeOk for that of
\* 'punches'
callResetAllData ==
  /\ lastCall = NoCall
  /\ \E clockOk, punchesOk \in BOOLEAN :
       LET r == resetAllData(storePunches, storeClock, clockOk, punchesOk)
       IN  /\ storePunches' = r.stored
           /\ storeClock' = r.flag
           /\ lastCall' = Call("resetAllData", 0 - 1, NoPunch, clockOk, punchesOk, r.threw)
  /\ UNCHANGED <<punches, now, screen, hoursWorked, dailyTotals, weeklyTotals, textVars,
                 walkVars, isClockedIn, homePunches, accessFailed, raceVars, readVars>>

NextCall == callSavePunch \/ callDeletePunch \/ callUpdatePunch \/ callResetAllData

SpecCall == InitCall /\ [][NextCall]_vars

\* ------------------------------------------------------------------------
\* Two store calls in flight at the same time
\* ------------------------------------------------------------------------
\* savePunch, deletePunch and updatePunch each await the getItem of
\* loadPunches and then their setItem.  A call is suspended at each await, so
\* the read of one call and the write of another may fall in any order.  The
\* record of a call: the function and its arguments, the await it is at, the
\* list its loadPunches returned, whether every storage access it made
\* succeeded, and whether it threw.
RaceSlots == {1, 2}

RacePunch == [timestamp : PressInstants, type : PunchTypes]

\* the first call is a savePunch, the second any of the three
RaceOps(i) == IF i = 1 THEN {"savePunch"} ELSE {"savePunch", "deletePunch", "updatePunch"}

IdleCall ==
  [op |-> "none", key |-> 0 - 1, punch |-> NoPunch, pc |-> "idle", loaded |-> <<>>,
   clean |-> TRUE, threw |-> FALSE]

InitRace ==
  /\ storePunches \in {<<>>} \cup {<<p>> : p \in RacePunch}
  /\ storeBefore = storePunches
  /\ inflight = [i \in RaceSlots |-> IdleCall]
  /\ clockReads = NoReads
  /\ storeClock = "none"
  /\ lastCall = NoCall
  /\ accessFailed = FALSE
  /\ isClockedIn = FALSE
  /\ homePunches = <<>>
  /\ now \in PressInstants
  /\ punches = <<>>
  /\ screen = "app"
  /\ hoursWorked = 0
  /\ dailyTotals = <<>>
  /\ weeklyTotals = <<>>
  /\ hoursLabel = NoLabel
  /\ emailContent = <<>>
  /\ walk = NoWalk

\* the function is called and runs up to the getItem of loadPunches
startCall ==
  /\ \E i \in RaceSlots, key \in PressInstants, punch \in RacePunch :
     \E op \in RaceOps(i) :
       /\ inflight[i].pc = "idle"
       /\ inflight' =
            [inflight EXCEPT ![i] =
               [IdleCall EXCEPT !.op = op,
                                !.key = IF op = "savePunch" THEN 0 - 1 ELSE key,
                                !.punch = IF op = "deletePunch" THEN NoPunch ELSE punch,
                                !.pc = "read"]]
  /\ UNCHANGED <<punches, now, screen, hoursWorked, dailyTotals, weeklyTotals, textVars,
                 walkVars, storeVars, storeBefore, readVars>>

\* the getItem of loadPunches is answered (punchStorage.ts 35-45)
callRead ==
  /\ \E i \in RaceSlots, readOk \in BOOLEAN :
       /\ inflight[i].pc = "read"
       /\ inflight' =
            [inflight EXCEPT ![i].loaded = loadPunches(storePunches, readOk),
                             ![i].clean = readOk,
                             ![i].pc = "write"]
  /\ UNCHANGED <<punches, now, screen, hoursWorked, dailyTotals, weeklyTotals, textVars,
                 walkVars, storeVars, storeBefore, readVars>>

\* what the call does with the list it loaded: the function applied to that
\* list, the read being done
callOutcome(c, writeOk) ==
  IF c.op = "savePunch" THEN savePunch(c.loaded, c.punch, TRUE, writeOk)
  ELSE IF c.op = "deletePunch" THEN deletePunch(c.loaded, c.key, TRUE, writeOk)
  ELSE updatePunch(c.loaded, c.key, c.punch, TRUE, writeOk)

\* the setItem is done, or fails and the call throws
callWrite ==
  /\ \E i \in RaceSlots, writeOk \in BOOLEAN :
       LET r == callOutcome(inflight[i], writeOk)
       IN  /\ inflight[i].pc = "write"
           /\ storePunches' = IF r.threw THEN storePunches ELSE r.stored
           /\ inflight' =
                [inflight EXCEPT ![i].clean = @ /\ writeOk,
                                 ![i].threw = r.threw,
                                 ![i].pc = "done"]
  /\ UNCHANGED <<punches, now, screen, hoursWorked, dailyTotals, weeklyTotals, textVars,
                 walkVars, storeClock, isClockedIn, homePunches, lastCall, accessFailed,
                 storeBefore, readVars>>

NextRace == startCall \/ callRead \/ callWrite

SpecRace == InitRace /\ [][NextRace]_vars

\* ------------------------------------------------------------------------
\* HomeScreen alone: the screen is mounted and the clock button pressed,
\* each press returning before the next
\* ------------------------------------------------------------------------
\* the clock at the presses and after the last of them
PressClock == {At(6, 9, 0, 0)} \cup PressInstants \cup {ClockEnd}

\* the press on HomeScreen alone: the clock runs over PressClock
pressClock ==
  /\ now \in PressClock
  /\ clockPress(PressClock)

InitPress ==
  /\ FreshStore
  /\ NoneInFlight
  /\ now = At(6, 9, 0, 0)
  /\ punches = <<>>
  /\ screen = "app"
  /\ hoursWorked = 0
  /\ dailyTotals = <<>>
  /\ weeklyTotals = <<>>
  /\ hoursLabel = NoLabel
  /\ emailContent = <<>>
  /\ walk = NoWalk

NextPress == loadInitialState \/ pressClock

SpecPress == InitPress /\ [][NextPress]_vars

\* ------------------------------------------------------------------------
\* Clock presses that overlap
\* ------------------------------------------------------------------------
\* handleClockPress is an async function: it runs up to its
\* `await Promise.all(...)` (line 90) and the screen takes further presses
\* while the two store calls are pending.  Its `isClockedIn` and `punches`
\* are those of the last render, so a press made before an earlier one has
\* set the state sees the values the earlier one saw.  Every storage access
\* succeeds in this part.  The record of a press: newState, the punch, the
\* `punches` of its render, where saveClockState and savePunch are, and the
\* list savePunch loaded.
TapSlots == {1, 2}

IdlePress ==
  [op |-> "none", newState |-> FALSE, punch |-> NoPunch, rendered |-> <<>>,
   flag |-> "idle", pc |-> "idle", loaded |-> <<>>]

InitTaps ==
  /\ FreshStore
  /\ inflight = [i \in TapSlots |-> IdlePress]
  /\ clockReads = NoReads
  /\ storeBefore = <<>>
  /\ now = At(6, 9, 0, 0)
  /\ punches = <<>>
  /\ screen = "app"
  /\ hoursWorked = 0
  /\ dailyTotals = <<>>
  /\ weeklyTotals = <<>>
  /\ hoursLabel = NoLabel
  /\ emailContent = <<>>
  /\ walk = NoWalk

\* lines 79-90: the press up to the await, both store calls started
tapStart ==
  /\ \E i \in TapSlots, later \in {t \in PressClock : t > now} :
       LET newState == ~isClockedIn
       IN  /\ inflight[i].pc = "idle"
           /\ inflight' =
                [inflight EXCEPT ![i] =
                   [op |-> "press", newState |-> newState,
                    punch |-> [timestamp |-> now, type |-> IF newState THEN "in" ELSE "out"],
                    rendered |-> homePunches, flag |-> "write", pc |-> "read",
                    loaded |-> <<>>]]
           /\ now' = later
  /\ UNCHANGED <<punches, screen, hoursWorked, dailyTotals, weeklyTotals, textVars, walkVars,
                 storeVars, storeBefore, readVars>>

\* the setItem of saveClockState(newState)
tapFlagWrite ==
  /\ \E i \in TapSlots :
       /\ inflight[i].flag = "write"
       /\ storeClock' = saveClockState(storeClock, inflight[i].newState, TRUE).flag
       /\ inflight' = [inflight EXCEPT ![i].flag = "done"]
  /\ UNCHANGED <<punches, now, screen, hoursWorked, dailyTotals, weeklyTotals, textVars,
                 walkVars, storePunches, isClockedIn, homePunches, lastCall, accessFailed,
                 storeBefore, readVars>>

\* the getItem of savePunch's loadPunches
tapPunchRead ==
  /\ \E i \in TapSlots :
       /\ inflight[i].pc = "read"
       /\ inflight' = [inflight EXCEPT ![i].loaded = loadPunches(storePunches, TRUE),
                                       ![i].pc = "write"]
  /\ UNCHANGED <<punches, now, screen, hoursWorked, dailyTotals, weeklyTotals, textVars,
                 walkVars, storeVars, storeBefore, readVars>>

\* the setItem of savePunch
tapPunchWrite ==
  /\ \E i \in TapSlots :
       /\ inflight[i].pc = "write"
       /\ storePunches' = savePunch(inflight[i].loaded, inflight[i].punch, TRUE, TRUE).stored
       /\ inflight' = [inflight EXCEPT ![i].pc = "done"]
  /\ UNCHANGED <<punches, now, screen, hoursWorked, dailyTotals, weeklyTotals, textVars,
                 walkVars, storeClock, isClockedIn, homePunches, lastCall, accessFailed,
                 storeBefore, readVars>>

\* lines 92-96: both calls are done, the press sets the state of the screen
tapFinish ==
  /\ \E i \in TapSlots :
       LET updatedPunches == Append(inflight[i].rendered, inflight[i].punch)
       IN  /\ inflight[i].flag = "done"
           /\ inflight[i].pc = "done"
           /\ homePunches' = updatedPunches
           /\ isClockedIn' = inflight[i].newState
           /\ hoursWorked' = calculateHoursWorkedToday(updatedPunches, now, now, now)
           /\ inflight' = [inflight EXCEPT ![i] = IdlePress]
  /\ UNCHANGED <<punches, now, screen, dailyTotals, weeklyTotals, textVars, walkVars,
                 storePunches, storeClock, lastCall, accessFailed, storeBefore, readVars>>

NextTaps == tapStart \/ tapFlagWrite \/ tapPunchRead \/ tapPunchWrite \/ tapFinish

SpecTaps == InitTaps /\ [][NextTaps]_vars

\* ------------------------------------------------------------------------
\* calculateHoursWorkedToday while the clock runs
\* ------------------------------------------------------------------------
\* The function reads the clock three times (lines 12, 13 and 51) and the
\* clock may have advanced from one read to the next.  The values here are
\* the last millisecond of a day, the midnight after it and the millisecond
\* after that.
ReadClock == {getEndOfDay(At(7, 0, 0, 0)), At(8, 0, 0, 0), At(8, 0, 0, 0) + 1}

InitReads ==
  /\ punches \in SeqsUpTo(Punch, MaxPunches)
  /\ now \in ReadClock
  /\ screen = "idle"
  /\ hoursWorked = 0
  /\ dailyTotals = <<>>
  /\ weeklyTotals = <<>>
  /\ hoursLabel = NoLabel
  /\ emailContent = <<>>
  /\ walk = NoWalk
  /\ FreshStore
  /\ NoneInFlight

\* HomeScreen: setHoursWorked(calculateHoursWorkedToday(punches)), the first
\* read of the clock returning `now` and the others that or a later value
refreshWhileClockRuns ==
  /\ screen = "idle"
  /\ \E nowEnd \in {t \in ReadClock : t >= now} :
       \E nowOpen \in {t \in ReadClock : t >= nowEnd} :
         /\ hoursWorked' = calculateHoursWorkedToday(punches, now, nowEnd, nowOpen)
         /\ clockReads' = readsOf(punches, now, nowEnd, nowOpen)
         /\ now' = nowOpen
  /\ screen' = "home"
  /\ UNCHANGED <<punches, dailyTotals, weeklyTotals, textVars, walkVars, storeVars, raceVars>>

NextReads == refreshWhileClockRuns

SpecReads == InitReads /\ [][NextReads]_vars

\* ------------------------------------------------------------------------
\* Vocabulary of the properties
\* ------------------------------------------------------------------------
\* the stored punches in ascending timestamp order
sorted == sortAscending(punches)

removeAt(s, i) == SubSeq(s, 1, i - 1) \o SubSeq(s, i + 1, Len(s))

Max(a, b) == IF a >= b THEN a ELSE b
Min(a, b) == IF a <= b THEN a ELSE b

\* length of the intersection of [a, b] with [lo, hi], in milliseconds
OverlapMs(a, b, lo, hi) == Max(0, Min(b, hi) - Max(a, lo))

RECURSIVE SumOver(_, _)
SumOver(S, f) ==
  IF S = {} THEN 0
  ELSE LET x == CHOOSE y \in S : TRUE IN f[x] + SumOver(S \ {x}, f)

\* closed sessions of a sorted list: an IN directly followed by a later OUT
ClosedAt(s) ==
  {i \in 1..(Len(s) - 1) :
     s[i].type = "in" /\ s[i + 1].type = "out" /\ s[i + 1].timestamp > s[i].timestamp}

\* the list ends with an IN: a session is open
HasOpen(s) == Len(s) > 0 /\ s[Len(s)].type = "in"

\* all calendar days a punch or the clock of the model can fall on
AllDays == dayKey(At(5, 0, 0, 0))..dayKey(At(8, 0, 0, 0))

\* hours a list of day buckets reports for day d, 0 when d has no bucket
hoursOn(totals, d) ==
  LET hit == {i \in 1..Len(totals) : totals[i].date = dateOfDayKey(d)}
  IN  SumOver(hit, [i \in hit |-> totals[i].hours])

TodayStart == getStartOfDay(now)
TodayEnd == getEndOfDay(now)

\* C1: an IN directly followed, in ascending timestamp order, by another IN
\* counts for nothing: today's hours and the hours of every day are those of
\* the punch set without that first IN.
C1_DanglingInDiscarded ==
  LET s == sorted
  IN  \A i \in 1..(Len(s) - 1) :
        (s[i].type = "in" /\ s[i + 1].type = "in") =>
          /\ screen = "home" =>
               hoursWorked = calculateHoursWorkedToday(removeAt(s, i), now, now, now)
          /\ screen = "report" =>
               LET without == getDailyTotals(removeAt(s, i), now, now)
               IN  \A d \in AllDays : hoursOn(dailyTotals, d) = hoursOn(without, d)

\* a dangling IN of today, followed by an IN and then an OUT that closes a
\* session counted today
C1_Witness ==
  /\ screen = "home"
  /\ hoursWorked > 0
  /\ LET s == sorted
     IN  \E i \in 1..(Len(s) - 2) :
           /\ s[i].type = "in" /\ s[i + 1].type = "in"
           /\ s[i + 2].type = "out"
           /\ s[i].timestamp >= TodayStart
           /\ s[i].timestamp < s[i + 1].timestamp
           /\ s[i + 1].timestamp < s[i + 2].timestamp

\* hundredths of an hour the closed sessions add to today
ClosedHoursToday ==
  LET s == sorted
      S == ClosedAt(s)
  IN  SumOver(S, [i \in S |->
        toFixed2(OverlapMs(s[i].timestamp, s[i + 1].timestamp, TodayStart, TodayEnd))])

\* C2: when the last punch is an IN earlier than now, that IN counts as a
\* session ending at now: it adds now minus the later of its own time and
\* today's start.
C2_OpenSessionEndsAtNow ==
  LET s == sorted
  IN  (screen = "home" /\ HasOpen(s) /\ s[Len(s)].timestamp < now) =>
        hoursWorked = ClosedHoursToday
                        + toFixed2(now - Max(s[Len(s)].timestamp, TodayStart))

\* an open session that began before today's midnight
C2_Witness ==
  /\ screen = "home"
  /\ LET s == sorted IN HasOpen(s) /\ s[Len(s)].timestamp < TodayStart
  /\ hoursWorked = toFixed2(now - TodayStart)

\* exact milliseconds of all sessions, closed and open, that fall in today
ExactMsToday ==
  LET s == sorted
      S == ClosedAt(s)
  IN  SumOver(S, [i \in S |->
        OverlapMs(s[i].timestamp, s[i + 1].timestamp, TodayStart, TodayEnd)])
      + (IF HasOpen(s)
         THEN OverlapMs(s[Len(s)].timestamp, now, TodayStart, TodayEnd)
         ELSE 0)

\* C3: today's hours are the summed lengths of the intersections of every
\* session, closed or open, with today, as a number of hours with two
\* decimals.
C3_SumOfClippedSessions ==
  screen = "home" => hoursWorked = toFixed2(ExactMsToday)

\* ------------------------------------------------------------------------
\* Sessions, stated apart from the scan
\* ------------------------------------------------------------------------
\* [tIn, end] of every session of the sorted list: the closed ones, and the
\* open one ended at now when now is later than its IN
Sessions ==
  LET s == sorted
  IN  {<<s[i].timestamp, s[i + 1].timestamp>> : i \in ClosedAt(s)}
        \cup (IF HasOpen(s) /\ now > s[Len(s)].timestamp
              THEN {<<s[Len(s)].timestamp, now>>}
              ELSE {})

\* milliseconds of session x inside day d, the day taken up to 23:59:59.999
\* as getEndOfDay has it
DayMsToEndOfDay(x, d) ==
  OverlapMs(x[1], x[2], dateOfDayKey(d), dateOfDayKey(d) + (MsPerDay - 1))

\* milliseconds of session x inside day d, the day taken up to the midnight
\* that ends it
DayMsToMidnight(x, d) ==
  OverlapMs(x[1], x[2], dateOfDayKey(d), dateOfDayKey(d + 1))

SumOfBuckets(totals) ==
  LET I == 1..Len(totals) IN SumOver(I, [i \in I |-> totals[i].hours])

FirstDay == dayKey(sorted[1].timestamp)
LastDay ==
  LET s == sorted
  IN  IF HasOpen(s) THEN dayKey(now) ELSE dayKey(s[Len(s)].timestamp)

\* exactly one bucket per day of FirstDay..LastDay, newest first
CoversRange(totals) ==
  LET first == FirstDay
      last == LastDay
  IN  /\ Len(totals) = Cardinality(first..last)
      /\ \A k \in 1..Len(totals) : totals[k].date = dateOfDayKey(last - (k - 1))

\* some session has a part of positive length inside a day
HasSegment ==
  LET S == Sessions IN \E x \in S : \E d \in AllDays : DayMsToEndOfDay(x, d) > 0

MsPerWeek == DaysPerWeek * MsPerDay

\* weeks, counted from the Sunday of day 0, that hold a punch
PunchWeeks == {punches[i].timestamp \div MsPerWeek : i \in 1..Len(punches)}

\* C6: one week bucket per Sunday-start week holding a punch and no other,
\* each keyed by that week's Sunday 00:00, newest first.
C6_OneBucketPerPunchWeek ==
  screen = "report" =>
    /\ {weeklyTotals[k].weekStart : k \in 1..Len(weeklyTotals)}
         = {w * MsPerWeek : w \in PunchWeeks}
    /\ Len(weeklyTotals) = Cardinality(PunchWeeks)
    /\ \A k \in 1..(Len(weeklyTotals) - 1) :
         weeklyTotals[k].weekStart > weeklyTotals[k + 1].weekStart

\* punches in two different weeks, stored oldest week last
C6_Witness ==
  /\ screen = "report"
  /\ Len(weeklyTotals) = 2
  /\ punches[1].timestamp \div MsPerWeek < punches[Len(punches)].timestamp \div MsPerWeek

\* C7: when no session crosses a week boundary the day buckets and the week
\* buckets add up to the same hours.
C7_DailySumEqualsWeeklySum ==
  (screen = "report" /\ \A x \in Sessions : x[1] \div MsPerWeek = x[2] \div MsPerWeek)
    => SumOfBuckets(dailyTotals) = SumOfBuckets(weeklyTotals)

\* C8: an IN stored directly before an OUT that carries an earlier time is
\* a malformed pair; it adds nothing, and the results are those of the
\* punch set without the two punches.
C8_MalformedPairIgnored ==
  \A i \in 1..(Len(punches) - 1) :
    (/\ punches[i].type = "in" /\ punches[i + 1].type = "out"
     /\ punches[i + 1].timestamp < punches[i].timestamp) =>
      LET rest == removeAt(removeAt(punches, i + 1), i)
      IN  /\ screen = "home" =>
                hoursWorked = calculateHoursWorkedToday(rest, now, now, now)
          /\ screen = "report" =>
                \A d \in AllDays :
                  hoursOn(dailyTotals, d) = hoursOn(getDailyTotals(rest, now, now), d)

Abs(x) == IF x >= 0 THEN x ELSE 0 - x

\* C9: the result is the exact time of today rounded once, so it is never
\* further than half a hundredth of an hour from that exact time.
C9_RoundedOnce ==
  screen = "home" =>
    2 * Abs(hoursWorked * MsPerHundredth - ExactMsToday) <= MsPerHundredth

\* the list with the neighbours at i and i + 1 exchanged
swapAt(s, i) == [s EXCEPT ![i] = s[i + 1], ![i + 1] = s[i]]

\* Exchanging two neighbours of the stored list changes no result.  Every
\* ordering of a collection is reached from any other by such exchanges and
\* every ordering is a punch list of the model, so this, holding in every
\* state, is the sameness of the results over all orderings.
SameForEveryOrder ==
  \A i \in 1..(Len(punches) - 1) :
    LET q == swapAt(punches, i)
    IN  /\ screen = "home" => calculateHoursWorkedToday(q, now, now, now) = hoursWorked
        /\ screen = "report" =>
             /\ getDailyTotals(q, now, now) = dailyTotals
             /\ getWeeklyTotals(q, now) = weeklyTotals

\* C10 as stated: with now fixed, the three results are the same for every
\* ordering of the punches, equal timestamps included.
C10_OrderIndependent == SameForEveryOrder

\* no IN carries the timestamp of an OUT
NoInOutTie ==
  \A i, j \in 1..Len(punches) :
    punches[i].timestamp = punches[j].timestamp => punches[i].type = punches[j].type

\* C10 as amended: the results are the same for every ordering when no IN
\* and OUT carry the same timestamp.
C10_OrderIndependentNoTie == NoInOutTie => SameForEveryOrder

\* punches stored newest first that pair into a session once sorted
C10_Witness ==
  /\ screen = "report"
  /\ NoInOutTie
  /\ Len(punches) >= 2
  /\ punches[1].timestamp > punches[2].timestamp
  /\ SumOfBuckets(dailyTotals) > 0

hoursOfWeek(totals, k) ==
  LET hit == {i \in 1..Len(totals) : totals[i].weekStart = k}
  IN  SumOver(hit, [i \in hit |-> totals[i].hours])

\* all weeks a punch of the model can fall in, by their Sunday 00:00
AllWeeks == {getStartOfWeek(dateOfDayKey(d)) : d \in AllDays}

\* positions of the sorted list s that hold an OUT with no IN open: the first
\* punch, or the punch directly after another OUT
UnpairedOutAt(s) ==
  {i \in 1..Len(s) : s[i].type = "out" /\ (i = 1 \/ s[i - 1].type = "out")}

\* C18: an OUT met while no IN is open (the first punch, or an OUT directly
\* after an OUT) adds no hours and changes nothing in the pairing of the
\* other punches: today's hours, every day's hours and every week's hours
\* are those of the list without it.  An OUT that closes an IN empties the
\* slot, so a second OUT after it is such an unpaired OUT.
C18_UnpairedOutInert ==
  LET s == sorted
  IN  \A i \in UnpairedOutAt(s) :
        LET q == removeAt(s, i)
        IN  /\ screen = "home" =>
                 hoursWorked = calculateHoursWorkedToday(q, now, now, now)
            /\ screen = "report" =>
                 LET daily == getDailyTotals(q, now, now)
                     weekly == getWeeklyTotals(q, now)
                 IN  /\ \A d \in AllDays : hoursOn(dailyTotals, d) = hoursOn(daily, d)
                     /\ \A k \in AllWeeks :
                          hoursOfWeek(weeklyTotals, k) = hoursOfWeek(weekly, k)

\* an IN, its OUT and a second OUT, all of today, with hours counted
C18_Witness ==
  /\ screen = "home"
  /\ hoursWorked > 0
  /\ LET s == sorted
     IN  \E i \in 2..(Len(s) - 1) :
           /\ s[i - 1].type = "in" /\ s[i].type = "out" /\ s[i + 1].type = "out"
           /\ s[i - 1].timestamp < s[i].timestamp
           /\ s[i].timestamp < s[i + 1].timestamp
           /\ isSameDay(s[i - 1].timestamp, now)

\* instants at which the totals are evaluated a second time
LaterInstants == Nows \cup {At(8, 18, 0, 0)}

\* C20: when the chronologically last punch is an OUT, the day buckets and
\* the week buckets are the same at every evaluation instant later than
\* that punch.
C20_ClosedTotalsIgnoreNow ==
  LET s == sorted
  IN  (/\ screen = "report"
       /\ Len(s) > 0
       /\ s[Len(s)].type = "out"
       /\ s[Len(s)].timestamp < now)
        => \A t \in LaterInstants :
             t > s[Len(s)].timestamp =>
               /\ getDailyTotals(punches, t, t) = dailyTotals
               /\ getWeeklyTotals(punches, t) = weeklyTotals

\* positions of the lines of a kind in a text
LinesOfKind(c, kind) == {j \in 1..Len(c) : c[j].kind = kind}

\* C16: the report has its sections in the order Weekly Totals, Daily
\* Totals, Detailed Punch History; below the last heading every punch of
\* the list appears exactly once, in ascending order of timestamp, and each
\* local calendar day holding a punch has exactly one header line, which
\* (with its line of dashes) stands directly before the punches of that day.
C16_ReportSectionsAndHistory ==
  screen = "email" =>
    LET c == emailContent
        s == sorted
        heads == LinesOfKind(c, "section")
        punchAt == LinesOfKind(c, "punch")
        headerAt == LinesOfKind(c, "header")
        history == CHOOSE j \in heads : \A k \in heads : k <= j
        \* the number of punch lines above line j
        before(j) == Cardinality({k \in punchAt : k < j})
        onDay(d) == {i \in 1..Len(s) : dayKey(s[i].timestamp) = d}
    IN  /\ Cardinality(heads) = 3
        /\ \E w, d, h \in heads :
              /\ w < d /\ d < h
              /\ c[w].unit = "Weekly Totals"
              /\ c[d].unit = "Daily Totals"
              /\ c[h].unit = "Detailed Punch History"
        /\ \A j \in punchAt \cup headerAt : j > history
        /\ Cardinality(punchAt) = Len(s)
        /\ \A j \in punchAt :
              /\ c[j].unit = toUpperCase(s[before(j) + 1].type)
              /\ c[j].amount = formatPunchTime(s[before(j) + 1].timestamp)
        /\ \A d \in AllDays :
              Cardinality({j \in headerAt : c[j].key = d}) = (IF onDay(d) = {} THEN 0 ELSE 1)
        /\ \A j \in headerAt :
              /\ c[j + 1].kind = "dashes"
              /\ \A i \in 1..Len(s) :
                    dayKey(s[i].timestamp) = c[j].key
                      <=> (i > before(j) /\ i <= before(j) + Cardinality(onDay(c[j].key)))
              /\ \A m \in 1..Cardinality(onDay(c[j].key)) : c[j + 1 + m].kind = "punch"

\* a report of three punches stored newest first, two of them on one day
C16_Witness ==
  /\ screen = "email"
  /\ Len(punches) = 3
  /\ punches[1].timestamp > punches[2].timestamp
  /\ punches[2].timestamp > punches[3].timestamp
  /\ isSameDay(punches[1].timestamp, punches[2].timestamp)
  /\ ~isSameDay(punches[2].timestamp, punches[3].timestamp)

\* calendar days that the instants from tIn up to, not including, tEnd fall on
DaysTouched(tIn, tEnd) == dayKey(tEnd - 1) - dayKey(tIn) + 1

\* C17: every day-segment walk ends, also when the OUT or the clock is
\* exactly a local midnight and when a segment has no length: an iteration
\* either leaves the loop or puts the cursor on the start of the next local
\* day, and a walk makes at most as many iterations as the session touches
\* calendar days.
C17_WalkEndsWithinDaysTouched ==
  /\ [](walk.iterations <= DaysTouched(walk.tIn, walk.tEnd))
  /\ [][walk.pc = "loop" =>
         \/ walk'.pc = "done"
         \/ walk'.currentSegmentStart = getStartOfDay(walk.currentSegmentStart) + MsPerDay]_vars
  /\ <>(walk.pc = "done")

\* a walk over four days, begun on the last millisecond of a day with a
\* segment of no length, has ended
C17_Witness ==
  /\ walk.pc = "done"
  /\ walk.tIn = getEndOfDay(walk.tIn)
  /\ walk.tEnd = getStartOfDay(walk.tEnd)
  /\ walk.iterations >= 2

\* C15: whatever clock presses, punch edits and deletions have been done,
\* no two stored punches carry the same timestamp, so a deletion or an edit,
\* both keyed by the timestamp, reaches at most one stored punch.
C15_StoredTimestampsUnique ==
  \A i, j \in 1..Len(storePunches) :
    storePunches[i].timestamp = storePunches[j].timestamp => i = j

\* C13: savePunch, deletePunch and updatePunch throw whenever a storage
\* access of the call fails, be it the read of the current list or the write
\* of the new one, and the stored list is then exactly what it was.
C13_FailedAccessThrowsAndKeepsList ==
  (/\ lastCall.op \in {"savePunch", "deletePunch", "updatePunch"}
   /\ (~lastCall.readOk \/ ~lastCall.writeOk))
    => (lastCall.threw /\ storePunches = lastCall.before)

\* C14: after a resetAllData that did not throw, loadPunches returns the
\* empty list and loadClockState returns false.
C14_ResetLeavesNothing ==
  (lastCall.op = "resetAllData" /\ ~lastCall.threw) =>
    \A readOk \in BOOLEAN :
      /\ loadPunches(storePunches, readOk) = <<>>
      /\ loadClockState(storeClock, readOk) = FALSE

\* a reset of a store that held punches and the flag "in"
C14_Witness ==
  /\ lastCall.op = "resetAllData"
  /\ ~lastCall.threw
  /\ lastCall.before # <<>>
  /\ lastCall.flagBefore = "in"

\* how often the punch x is in the list s
Count(s, x) == Cardinality({i \in 1..Len(s) : s[i] = x})

\* how many punches of the list s carry the timestamp t
CountAt(s, t) == Cardinality({i \in 1..Len(s) : s[i].timestamp = t})

\* C19: with every storage access succeeding, deletePunch(ts) removes the
\* stored punches whose timestamp is ts and no other, updatePunch(old, p)
\* puts p in the place of each stored punch whose timestamp is old and
\* touches no other, and neither changes the clock flag; when no stored
\* punch has the timestamp the stored punches are what they were, and
\* loadPunches returns the list it returned before.
C19_DeleteUpdateFrame ==
  (/\ lastCall.op \in {"deletePunch", "updatePunch"}
   /\ lastCall.readOk /\ lastCall.writeOk)
    => LET before == lastCall.before
           key == lastCall.key
       IN  /\ ~lastCall.threw
           /\ storeClock = lastCall.flagBefore
           /\ Len(storePunches)
                = (IF lastCall.op = "deletePunch"
                   THEN Len(before) - CountAt(before, key)
                   ELSE Len(before))
           /\ \A x \in StorePunch :
                 Count(storePunches, x)
                   = (IF x.timestamp = key THEN 0 ELSE Count(before, x))
                       + (IF lastCall.op = "updatePunch" /\ x = lastCall.punch
                          THEN CountAt(before, key)
                          ELSE 0)
           /\ CountAt(before, key) = 0 =>
                 /\ \A x \in StorePunch : Count(storePunches, x) = Count(before, x)
                 /\ loadPunches(storePunches, TRUE) = loadPunches(before, TRUE)

\* an update that found its punch next to a punch of another time, the
\* flag being "in"
C19_Witness ==
  /\ lastCall.op = "updatePunch"
  /\ lastCall.readOk /\ lastCall.writeOk
  /\ lastCall.flagBefore = "in"
  /\ CountAt(lastCall.before, lastCall.key) = 1
  /\ Len(lastCall.before) = 2
  /\ lastCall.punch.timestamp # lastCall.key

\* the punches of a list whose timestamps parse
parsableOnly(s) == SelectSeq(s, LAMBDA p : ~isNaN(p.timestamp))

\* C11: a punch whose timestamp does not parse makes none of
\* calculateHoursWorkedToday, getDailyTotals and getWeeklyTotals throw, and
\* each returns what it returns for the list without that punch.
C11_UnparsableIgnored ==
  LET q == parsableOnly(punches)
  IN  /\ screen # "error"
      /\ screen = "home" => hoursWorked = calculateHoursWorkedToday(q, now, now, now)
      /\ screen \in {"report", "email"} =>
            /\ dailyTotals = getDailyTotals(q, now, now)
            /\ weeklyTotals = getWeeklyTotals(q, now)

\* hours of a whole week, in hundredths
HoursPerWeek == DaysPerWeek * HoursPerDay * 100

\* C21: every week bucket reports between 0 and 168 hours, also when the
\* last punch of a week is an IN and when a punch is dated later than now.
C21_WeekHoursWithinWeek ==
  screen = "report" =>
    \A k \in 1..Len(weeklyTotals) :
      weeklyTotals[k].hours >= 0 /\ weeklyTotals[k].hours <= HoursPerWeek

\* the store after the call c, run alone from the stored list s with every
\* storage access succeeding
aloneFrom(s, c) ==
  IF c.op = "savePunch" THEN savePunch(s, c.punch, TRUE, TRUE).stored
  ELSE IF c.op = "deletePunch" THEN deletePunch(s, c.key, TRUE, TRUE).stored
  ELSE updatePunch(s, c.key, c.punch, TRUE, TRUE).stored

\* the two lists hold the same punches, each as often
SamePunches(a, b) ==
  /\ Len(a) = Len(b)
  /\ \A x \in RacePunch : Count(a, x) = Count(b, x)

\* C22: when two store mutations in flight at the same time have both
\* returned without error, every storage access having succeeded, the
\* stored list holds what the two calls leave when one runs after the other,
\* and a punch saved by one of them is stored unless the other call deleted
\* or replaced the punches of its timestamp.
C22_BothMutationsStored ==
  LET a == inflight[1]
      b == inflight[2]
  IN  (/\ DOMAIN inflight = RaceSlots
       /\ a.pc = "done" /\ b.pc = "done"
       /\ a.clean /\ b.clean /\ ~a.threw /\ ~b.threw)
        => /\ \/ SamePunches(storePunches, aloneFrom(aloneFrom(storeBefore, a), b))
              \/ SamePunches(storePunches, aloneFrom(aloneFrom(storeBefore, b), a))
           /\ (b.op = "savePunch" \/ b.key # a.punch.timestamp)
                => Count(storePunches, a.punch) >= 1

\* the chronologically last stored punch is an IN
LastStoredIsIn ==
  LET s == sortAscending(storePunches) IN HasOpen(s)

\* C23: after presses that each ran to their end, some of whose storage
\* writes failed, the stored clock flag is 'in' exactly when the most
\* recently stored punch is an IN.
C23_FlagMatchesLastPunch == (storeClock = "in") <=> LastStoredIsIn

\* C24: from an empty store and under every interleaving of clock presses,
\* a press made before an earlier one has finished included, the stored
\* punches in ascending order of timestamp are IN, OUT, IN, ...: the first
\* is an IN and no two neighbours have the same type.
C24_StoredPunchesAlternate ==
  LET s == sortAscending(storePunches)
  IN  \A i \in 1..Len(s) : s[i].type = (IF i % 2 = 1 THEN "in" ELSE "out")

\* C25: as long as no storage access has failed, after clock presses, punch
\* edits, punch deletions and resets that each ran to their end, the stored
\* clock flag is 'in' exactly when the chronologically last stored punch is
\* an IN, which is when the aggregator sees an open session.
C25_FlagMatchesOpenSession ==
  ~accessFailed => ((storeClock = "in") <=> LastStoredIsIn)

\* hours of a whole day, in hundredths
HundredthsPerDay == HoursPerDay * 100

\* C26: calculateHoursWorkedToday returns between 0 and 24 hours, and the
\* start and the end of the day it clips to are those of one calendar day,
\* also when the clock advances between its reads of the current time.
C26_TodayWithinOneDay ==
  screen = "home" =>
    /\ hoursWorked >= 0
    /\ hoursWorked <= HundredthsPerDay
    /\ clockReads # NoReads
         => isSameDay(getStartOfDay(clockReads.start), getEndOfDay(clockReads.end))

\* every punch of the list lies within the local day of now
AllWithinToday ==
  \A i \in 1..Len(punches) : isSameDay(punches[i].timestamp, now)

\* C27: for a punch list whose punches all lie within the current local day
\* the calculateHoursWorkedToday of src/utils/timeUtils.ts and that of
\* src/unnamed/part_000, evaluated at the same instant, return the same
\* value.
C27_VariantsAgreeWithinToday ==
  (screen = "home" /\ AllWithinToday) =>
    hoursWorked = calculateHoursWorkedTodayUnnamed(punches, now, now)

====
